---- MODULE Spec2Model ----
\* Command TRB codec (src/src/ring/trb/command.rs), Structural Parameters 2
\* decoding (src/src/registers/capability.rs) and the Ring enqueue protocol
\* of the xhci crate.
\*
\* Machine integers are bit vectors: a u8/u16/u32/u64 value is the set of
\* the positions of its 1 bits (a subset of 0..7, 0..15, 0..31, 0..63), so
\* that 64-bit pointers and 32-bit words keep their exact width.  A TRB is a
\* function 0..3 -> word, as the Rust [u32; 4].
EXTENDS Integers, FiniteSets, Sequences, TLC

VARIABLES kind, trb, last, shadow,
          hw, reg, erst_out, spb_out,
          capacity, slots, enqueue_index, cycle_state, enqueued, last_index

vars == <<kind, trb, last, shadow, hw, reg, erst_out, spb_out,
          capacity, slots, enqueue_index, cycle_state, enqueued, last_index>>

trbVars == <<kind, trb, last, shadow>>
capVars == <<hw, reg, erst_out, spb_out>>
ringVars == <<capacity, slots, enqueue_index, cycle_state, enqueued, last_index>>

-----------------------------------------------------------------------------
\* Bounds of the model.

\* Largest number of 1 bits in a sampled setter argument drawn from a pool.
MaxArgBits == 2

\* Largest number of 1 bits in a sampled scratchpad-count field of the register.
MaxFieldBits == 2

\* Largest ring capacity (slots, the reserved final slot included).
MaxCapacity == 5

\* Largest number of enqueues in a run.
MaxEnqueues == 11

-----------------------------------------------------------------------------
\* Bit vectors.

RECURSIVE Bits(_)
\* The bit vector of a natural number.
Bits(n) == IF n = 0 THEN {}
           ELSE (IF n % 2 = 1 THEN {0} ELSE {}) \cup { i + 1 : i \in Bits(n \div 2) }

RECURSIVE Pow(_, _)
Pow(b, e) == IF e = 0 THEN 1 ELSE b * Pow(b, e - 1)

RECURSIVE Val(_)
\* The natural number of a (small) bit vector.
Val(w) == IF w = {} THEN 0
          ELSE LET i == CHOOSE x \in w : TRUE IN Pow(2, i) + Val(w \ {i})

\* The subsets of pool with at most n elements.
UpTo(pool, n) == { s \in SUBSET pool : Cardinality(s) <= n }

\* BitField::get_bits(lo..=hi): the field, shifted down to bit 0.
get_bits(w, lo, hi) == { i - lo : i \in w \cap (lo..hi) }

\* BitField::get_bit(b).
get_bit(w, b) == b \in w

\* BitField::set_bit(b, v).
set_bit(w, b, v) == IF v THEN w \cup {b} ELSE w \ {b}

\* The mutant of set_bits: the value is shifted in without the range check.
set_bits_unchecked(w, lo, hi, v) ==
    [ok |-> TRUE, w |-> ((w \ (lo..hi)) \cup { i + lo : i \in v }) \cap (0..31)]

\* BitField::set_bits(lo..=hi, v) on a u32: asserts that v fits into the range
\* ("value does not fit into bit range") before it touches the word.
set_bits(w, lo, hi, v) ==
    IF v \subseteq 0..(hi - lo)
    THEN [ok |-> TRUE, w |-> (w \ (lo..hi)) \cup { i + lo : i \in v }]
    ELSE [ok |-> FALSE, w |-> w]

\* TryInto for a narrower unsigned type of the given width, then unwrap().
try_into(v, width) == [ok |-> v \subseteq 0..(width - 1), v |-> v]

\* p % 16 of a u64.
Mod16(p) == p \cap (0..3)

\* The outcome of a setter: ok is FALSE when the call panicked, trb is the
\* record as the call left it.
Ok(t) == [ok |-> TRUE, trb |-> t]
Panic(t) == [ok |-> FALSE, trb |-> t]
InWord(t, i, r) == [ok |-> r.ok, trb |-> [t EXCEPT ![i] = r.w]]

-----------------------------------------------------------------------------
\* TRB types and construction (ring/trb/mod.rs, outside src/: add_trb_with_default!).

Kinds == {"Noop", "EnableSlot", "DisableSlot", "AddressDevice", "ConfigureEndpoint",
          "EvaluateContext", "ResetEndpoint", "StopEndpoint", "SetTrDequeuePointer"}

\* The Type discriminator of a variant (Type::X as the xHCI TRB type id).
TypeCode(k) ==
    CASE k = "EnableSlot" -> 9
      [] k = "DisableSlot" -> 10
      [] k = "AddressDevice" -> 11
      [] k = "ConfigureEndpoint" -> 12
      [] k = "EvaluateContext" -> 13
      [] k = "ResetEndpoint" -> 14
      [] k = "StopEndpoint" -> 15
      [] k = "SetTrDequeuePointer" -> 16
      [] k = "Noop" -> 23

\* X::new(): a zeroed record with only the Type field (word 3, bits 10..15) set.
new(k) == [i \in 0..3 |-> IF i = 3 THEN { b + 10 : b \in Bits(TypeCode(k)) } ELSE {}]

\* Stamping the cycle bit (word 3, bit 0), as the ring does on enqueue.
set_cycle_bit(t, b) == Ok([t EXCEPT ![3] = set_bit(t[3], 0, b)])
cycle_bit(t) == get_bit(t[3], 0)

-----------------------------------------------------------------------------
\* impl EnableSlot

EnableSlot_set_slot_type(t, v) == InWord(t, 3, set_bits(t[3], 16, 20, v))
EnableSlot_slot_type(t) == try_into(get_bits(t[3], 16, 20), 8).v

\* impl DisableSlot

DisableSlot_set_slot_id(t, i) == InWord(t, 3, set_bits(t[3], 24, 31, i))
DisableSlot_slot_id(t) == try_into(get_bits(t[3], 24, 31), 8).v

\* impl AddressDevice

\* The mutant: the alignment assertion is missing.
AddressDevice_set_input_context_pointer_unasserted(t, p) ==
    Ok([t EXCEPT ![0] = get_bits(p, 0, 31), ![1] = get_bits(p, 32, 63)])

AddressDevice_set_input_context_pointer(t, p) ==
    IF Mod16(p) # {} THEN Panic(t)
    ELSE LET l == try_into(get_bits(p, 0, 31), 32)
             u == try_into(get_bits(p, 32, 63), 32)
         IN  IF ~l.ok THEN Panic(t)
             ELSE IF ~u.ok THEN Panic([t EXCEPT ![0] = l.v])
             ELSE Ok([t EXCEPT ![0] = l.v, ![1] = u.v])

\* The mutant: the upper word is dropped by a 32-bit mask.
AddressDevice_input_context_pointer_masked(t) ==
    ({ i + 32 : i \in t[1] } \cup t[0]) \cap (0..31)

\* (u << 32) | l
AddressDevice_input_context_pointer(t) == { i + 32 : i \in t[1] } \cup t[0]

AddressDevice_set_block_set_address_request(t, r) == Ok([t EXCEPT ![3] = set_bit(t[3], 9, r)])
AddressDevice_block_set_address_request(t) == get_bit(t[3], 9)

AddressDevice_set_slot_id(t, i) == InWord(t, 3, set_bits(t[3], 24, 31, i))
AddressDevice_slot_id(t) == try_into(get_bits(t[3], 24, 31), 8).v

\* impl ConfigureEndpoint

ConfigureEndpoint_set_input_context_pointer(t, p) ==
    IF Mod16(p) # {} THEN Panic(t)
    ELSE LET l == try_into(get_bits(p, 0, 31), 32)
             u == try_into(get_bits(p, 32, 63), 32)
         IN  IF ~l.ok THEN Panic(t)
             ELSE IF ~u.ok THEN Panic([t EXCEPT ![0] = l.v])
             ELSE Ok([t EXCEPT ![0] = l.v, ![1] = u.v])

ConfigureEndpoint_input_context_pointer(t) == { i + 32 : i \in t[1] } \cup t[0]

ConfigureEndpoint_set_deconfigure(t, d) == Ok([t EXCEPT ![3] = set_bit(t[3], 9, d)])
ConfigureEndpoint_deconfigure(t) == get_bit(t[3], 9)

ConfigureEndpoint_set_slot_id(t, i) == InWord(t, 3, set_bits(t[3], 24, 31, i))
ConfigureEndpoint_slot_id(t) == try_into(get_bits(t[3], 24, 31), 8).v

\* impl EvaluateContext

EvaluateContext_set_input_context_pointer(t, p) ==
    IF Mod16(p) # {} THEN Panic(t)
    ELSE LET l == try_into(get_bits(p, 0, 31), 32)
             u == try_into(get_bits(p, 32, 63), 32)
         IN  IF ~l.ok THEN Panic(t)
             ELSE IF ~u.ok THEN Panic([t EXCEPT ![0] = l.v])
             ELSE Ok([t EXCEPT ![0] = l.v, ![1] = u.v])

EvaluateContext_input_context_pointer(t) == { i + 32 : i \in t[1] } \cup t[0]

EvaluateContext_set_slot_id(t, i) == InWord(t, 3, set_bits(t[3], 24, 31, i))
EvaluateContext_slot_id(t) == try_into(get_bits(t[3], 24, 31), 8).v

\* impl ResetEndpoint

\* The mutant: the flag is written one bit too high, into the Type field.
ResetEndpoint_set_transfer_state_preserve_bit10(t, tsp) ==
    Ok([t EXCEPT ![3] = set_bit(t[3], 10, tsp)])

ResetEndpoint_set_transfer_state_preserve(t, tsp) == Ok([t EXCEPT ![3] = set_bit(t[3], 9, tsp)])
ResetEndpoint_transfer_state_preserve(t) == get_bit(t[3], 9)

ResetEndpoint_set_endpoint_id(t, i) == InWord(t, 3, set_bits(t[3], 16, 20, i))
ResetEndpoint_endpoint_id(t) == try_into(get_bits(t[3], 16, 20), 8).v

ResetEndpoint_set_slot_id(t, i) == InWord(t, 3, set_bits(t[3], 24, 31, i))
ResetEndpoint_slot_id(t) == try_into(get_bits(t[3], 24, 31), 8).v

\* impl StopEndpoint

\* The mutant: the argument is shifted into the word without a range check.
StopEndpoint_set_endpoint_id_unchecked(t, i) ==
    InWord(t, 3, set_bits_unchecked(t[3], 16, 20, i))

StopEndpoint_set_endpoint_id(t, i) == InWord(t, 3, set_bits(t[3], 16, 20, i))
StopEndpoint_endpoint_id(t) == try_into(get_bits(t[3], 16, 20), 8).v

StopEndpoint_set_suspend(t, s) == Ok([t EXCEPT ![3] = set_bit(t[3], 23, s)])
StopEndpoint_suspend(t) == get_bit(t[3], 23)

StopEndpoint_set_slot_id(t, i) == InWord(t, 3, set_bits(t[3], 24, 31, i))
StopEndpoint_slot_id(t) == try_into(get_bits(t[3], 24, 31), 8).v

\* impl SetTrDequeuePointer

SetTrDequeuePointer_set_dequeue_cycle_state(t, s) == Ok([t EXCEPT ![0] = set_bit(t[0], 0, s)])
SetTrDequeuePointer_dequeue_cycle_state(t) == get_bit(t[0], 0)

SetTrDequeuePointer_set_stream_context_type(t, v) == InWord(t, 0, set_bits(t[0], 1, 3, v))
SetTrDequeuePointer_stream_context_type(t) == try_into(get_bits(t[0], 1, 3), 8).v

\* The mutant: word 0 is assigned whole, as the Input Context Pointer setters do.
SetTrDequeuePointer_set_new_tr_dequeue_pointer_whole_word(t, p) ==
    IF Mod16(p) # {} THEN Panic(t)
    ELSE Ok([t EXCEPT ![0] = get_bits(p, 0, 31), ![1] = get_bits(p, 32, 63)])

SetTrDequeuePointer_set_new_tr_dequeue_pointer(t, p) ==
    IF Mod16(p) # {} THEN Panic(t)
    ELSE LET l == get_bits(p, 0, 31)
             u == get_bits(p, 32, 63)
             v == try_into(get_bits(l, 4, 31), 32)
             r == set_bits(t[0], 4, 31, v.v)
             t1 == [t EXCEPT ![0] = r.w]
             u32 == try_into(u, 32)
         IN  IF ~v.ok \/ ~r.ok THEN Panic(t)
             ELSE IF ~u32.ok THEN Panic(t1)
             ELSE Ok([t1 EXCEPT ![1] = u32.v])

\* The u64 literal 0xffff_fff0: bits 4..31.
Mask_ffff_fff0 == 4..31

\* ((u << 32) | l) & 0xffff_fff0
SetTrDequeuePointer_new_tr_dequeue_pointer(t) ==
    ({ i + 32 : i \in t[1] } \cup t[0]) \cap Mask_ffff_fff0

SetTrDequeuePointer_set_stream_id(t, i) == InWord(t, 2, set_bits(t[2], 16, 31, i))
SetTrDequeuePointer_stream_id(t) == try_into(get_bits(t[2], 16, 31), 16).v

SetTrDequeuePointer_set_endpoint_id(t, i) == InWord(t, 3, set_bits(t[3], 16, 20, i))
SetTrDequeuePointer_endpoint_id(t) == try_into(get_bits(t[3], 16, 20), 8).v

SetTrDequeuePointer_set_slot_id(t, i) == InWord(t, 3, set_bits(t[3], 24, 31, i))
SetTrDequeuePointer_slot_id(t) == try_into(get_bits(t[3], 24, 31), 8).v

-----------------------------------------------------------------------------
\* The codec as a state machine: one TRB of some variant, built by new() and
\* then changed by its setters.  A panicking setter ends the run.

\* Sampled arguments: every value with at most MaxArgBits bits from a pool
\* that holds the lowest and highest bit of a field and bits beyond it, and
\* the values the documentation uses (7, 0x1234, 0x1000, 0x1001).
U8Samples == UpTo({0, 4, 5}, MaxArgBits) \cup {Bits(7)}
U16Samples == UpTo({15}, MaxArgBits) \cup {Bits(4660)}
PtrSamples == UpTo({3, 4, 63}, MaxArgBits) \cup {Bits(4096), Bits(4097)}

\* The declared fields of a variant, by the name of their getter.
Fields(k) ==
    CASE k = "Noop" -> {}
      [] k = "EnableSlot" -> {"slot_type"}
      [] k = "DisableSlot" -> {"slot_id"}
      [] k = "AddressDevice" -> {"input_context_pointer", "block_set_address_request", "slot_id"}
      [] k = "ConfigureEndpoint" -> {"input_context_pointer", "deconfigure", "slot_id"}
      [] k = "EvaluateContext" -> {"input_context_pointer", "slot_id"}
      [] k = "ResetEndpoint" -> {"transfer_state_preserve", "endpoint_id", "slot_id"}
      [] k = "StopEndpoint" -> {"endpoint_id", "suspend", "slot_id"}
      [] k = "SetTrDequeuePointer" -> {"dequeue_cycle_state", "stream_context_type", "new_tr_dequeue_pointer", "stream_id", "endpoint_id", "slot_id"}

BoolFields == {"block_set_address_request", "deconfigure", "transfer_state_preserve",
               "suspend", "dequeue_cycle_state", "cycle_bit"}
PtrFields == {"input_context_pointer", "new_tr_dequeue_pointer"}

\* The getter of field f of variant k.
Get(k, f, t) ==
    CASE f = "cycle_bit" -> cycle_bit(t)
      [] k = "EnableSlot" /\ f = "slot_type" -> EnableSlot_slot_type(t)
      [] k = "DisableSlot" /\ f = "slot_id" -> DisableSlot_slot_id(t)
      [] k = "AddressDevice" /\ f = "input_context_pointer" -> AddressDevice_input_context_pointer(t)
      [] k = "AddressDevice" /\ f = "block_set_address_request" -> AddressDevice_block_set_address_request(t)
      [] k = "AddressDevice" /\ f = "slot_id" -> AddressDevice_slot_id(t)
      [] k = "ConfigureEndpoint" /\ f = "input_context_pointer" -> ConfigureEndpoint_input_context_pointer(t)
      [] k = "ConfigureEndpoint" /\ f = "deconfigure" -> ConfigureEndpoint_deconfigure(t)
      [] k = "ConfigureEndpoint" /\ f = "slot_id" -> ConfigureEndpoint_slot_id(t)
      [] k = "EvaluateContext" /\ f = "input_context_pointer" -> EvaluateContext_input_context_pointer(t)
      [] k = "EvaluateContext" /\ f = "slot_id" -> EvaluateContext_slot_id(t)
      [] k = "ResetEndpoint" /\ f = "transfer_state_preserve" -> ResetEndpoint_transfer_state_preserve(t)
      [] k = "ResetEndpoint" /\ f = "endpoint_id" -> ResetEndpoint_endpoint_id(t)
      [] k = "ResetEndpoint" /\ f = "slot_id" -> ResetEndpoint_slot_id(t)
      [] k = "StopEndpoint" /\ f = "endpoint_id" -> StopEndpoint_endpoint_id(t)
      [] k = "StopEndpoint" /\ f = "suspend" -> StopEndpoint_suspend(t)
      [] k = "StopEndpoint" /\ f = "slot_id" -> StopEndpoint_slot_id(t)
      [] k = "SetTrDequeuePointer" /\ f = "dequeue_cycle_state" -> SetTrDequeuePointer_dequeue_cycle_state(t)
      [] k = "SetTrDequeuePointer" /\ f = "stream_context_type" -> SetTrDequeuePointer_stream_context_type(t)
      [] k = "SetTrDequeuePointer" /\ f = "new_tr_dequeue_pointer" -> SetTrDequeuePointer_new_tr_dequeue_pointer(t)
      [] k = "SetTrDequeuePointer" /\ f = "stream_id" -> SetTrDequeuePointer_stream_id(t)
      [] k = "SetTrDequeuePointer" /\ f = "endpoint_id" -> SetTrDequeuePointer_endpoint_id(t)
      [] k = "SetTrDequeuePointer" /\ f = "slot_id" -> SetTrDequeuePointer_slot_id(t)

\* The capability and ring variables are idle in the codec's specification.
\* The value of erst_out and spb_out before the register is read.
ErstNotRead == [ok |-> FALSE, v |-> -1]
SpbNotRead == [ok |-> FALSE, v |-> {}]
IdleCap == /\ hw = [erst |-> 0, hi |-> 0, lo |-> 0, other |-> {}]
           /\ reg = {} /\ erst_out = ErstNotRead /\ spb_out = SpbNotRead
IdleRing == /\ capacity = 0 /\ slots = <<>> /\ enqueue_index = 0
            /\ cycle_state = TRUE /\ enqueued = 0 /\ last_index = 0

Init ==
    /\ kind \in Kinds
    /\ trb = new(kind)
    /\ last = [op |-> "new", arg |-> {}, ok |-> TRUE]
    /\ shadow = [f \in Fields(kind) \cup {"cycle_bit"} |->
                    IF f \in BoolFields THEN FALSE ELSE {}]
    /\ IdleCap /\ IdleRing

\* A call of setter set_<f> of variant k with argument a and outcome r.  last
\* names the most recent call and whether it returned (ok) or panicked; shadow
\* remembers, per field, the argument of the last setter call that returned.
Call(k, f, a, r) ==
    /\ kind = k
    /\ last.ok
    /\ trb' = r.trb
    /\ last' = [op |-> f, arg |-> a, ok |-> r.ok]
    /\ shadow' = IF r.ok THEN [shadow EXCEPT ![f] = a] ELSE shadow
    /\ UNCHANGED <<kind, capVars, ringVars>>

Do_set_cycle_bit ==
    \E b \in BOOLEAN : Call(kind, "cycle_bit", b, set_cycle_bit(trb, b))

Do_EnableSlot_set_slot_type ==
    \E a \in U8Samples : Call("EnableSlot", "slot_type", a, EnableSlot_set_slot_type(trb, a))

Do_DisableSlot_set_slot_id ==
    \E a \in U8Samples : Call("DisableSlot", "slot_id", a, DisableSlot_set_slot_id(trb, a))

Do_AddressDevice_set_input_context_pointer ==
    \E a \in PtrSamples : Call("AddressDevice", "input_context_pointer", a, AddressDevice_set_input_context_pointer(trb, a))

Do_AddressDevice_set_block_set_address_request ==
    \E a \in BOOLEAN : Call("AddressDevice", "block_set_address_request", a, AddressDevice_set_block_set_address_request(trb, a))

Do_AddressDevice_set_slot_id ==
    \E a \in U8Samples : Call("AddressDevice", "slot_id", a, AddressDevice_set_slot_id(trb, a))

Do_ConfigureEndpoint_set_input_context_pointer ==
    \E a \in PtrSamples : Call("ConfigureEndpoint", "input_context_pointer", a, ConfigureEndpoint_set_input_context_pointer(trb, a))

Do_ConfigureEndpoint_set_deconfigure ==
    \E a \in BOOLEAN : Call("ConfigureEndpoint", "deconfigure", a, ConfigureEndpoint_set_deconfigure(trb, a))

Do_ConfigureEndpoint_set_slot_id ==
    \E a \in U8Samples : Call("ConfigureEndpoint", "slot_id", a, ConfigureEndpoint_set_slot_id(trb, a))

Do_EvaluateContext_set_input_context_pointer ==
    \E a \in PtrSamples : Call("EvaluateContext", "input_context_pointer", a, EvaluateContext_set_input_context_pointer(trb, a))

Do_EvaluateContext_set_slot_id ==
    \E a \in U8Samples : Call("EvaluateContext", "slot_id", a, EvaluateContext_set_slot_id(trb, a))

Do_ResetEndpoint_set_transfer_state_preserve ==
    \E a \in BOOLEAN : Call("ResetEndpoint", "transfer_state_preserve", a, ResetEndpoint_set_transfer_state_preserve(trb, a))

Do_ResetEndpoint_set_endpoint_id ==
    \E a \in U8Samples : Call("ResetEndpoint", "endpoint_id", a, ResetEndpoint_set_endpoint_id(trb, a))

Do_ResetEndpoint_set_slot_id ==
    \E a \in U8Samples : Call("ResetEndpoint", "slot_id", a, ResetEndpoint_set_slot_id(trb, a))

Do_StopEndpoint_set_endpoint_id ==
    \E a \in U8Samples : Call("StopEndpoint", "endpoint_id", a, StopEndpoint_set_endpoint_id(trb, a))

Do_StopEndpoint_set_suspend ==
    \E a \in BOOLEAN : Call("StopEndpoint", "suspend", a, StopEndpoint_set_suspend(trb, a))

Do_StopEndpoint_set_slot_id ==
    \E a \in U8Samples : Call("StopEndpoint", "slot_id", a, StopEndpoint_set_slot_id(trb, a))

Do_SetTrDequeuePointer_set_dequeue_cycle_state ==
    \E a \in BOOLEAN : Call("SetTrDequeuePointer", "dequeue_cycle_state", a, SetTrDequeuePointer_set_dequeue_cycle_state(trb, a))

Do_SetTrDequeuePointer_set_stream_context_type ==
    \E a \in U8Samples : Call("SetTrDequeuePointer", "stream_context_type", a, SetTrDequeuePointer_set_stream_context_type(trb, a))

Do_SetTrDequeuePointer_set_new_tr_dequeue_pointer ==
    \E a \in PtrSamples : Call("SetTrDequeuePointer", "new_tr_dequeue_pointer", a, SetTrDequeuePointer_set_new_tr_dequeue_pointer(trb, a))

Do_SetTrDequeuePointer_set_stream_id ==
    \E a \in U16Samples : Call("SetTrDequeuePointer", "stream_id", a, SetTrDequeuePointer_set_stream_id(trb, a))

Do_SetTrDequeuePointer_set_endpoint_id ==
    \E a \in U8Samples : Call("SetTrDequeuePointer", "endpoint_id", a, SetTrDequeuePointer_set_endpoint_id(trb, a))

Do_SetTrDequeuePointer_set_slot_id ==
    \E a \in U8Samples : Call("SetTrDequeuePointer", "slot_id", a, SetTrDequeuePointer_set_slot_id(trb, a))

Next ==
    \/ Do_set_cycle_bit
    \/ Do_EnableSlot_set_slot_type
    \/ Do_DisableSlot_set_slot_id
    \/ Do_AddressDevice_set_input_context_pointer
    \/ Do_AddressDevice_set_block_set_address_request
    \/ Do_AddressDevice_set_slot_id
    \/ Do_ConfigureEndpoint_set_input_context_pointer
    \/ Do_ConfigureEndpoint_set_deconfigure
    \/ Do_ConfigureEndpoint_set_slot_id
    \/ Do_EvaluateContext_set_input_context_pointer
    \/ Do_EvaluateContext_set_slot_id
    \/ Do_ResetEndpoint_set_transfer_state_preserve
    \/ Do_ResetEndpoint_set_endpoint_id
    \/ Do_ResetEndpoint_set_slot_id
    \/ Do_StopEndpoint_set_endpoint_id
    \/ Do_StopEndpoint_set_suspend
    \/ Do_StopEndpoint_set_slot_id
    \/ Do_SetTrDequeuePointer_set_dequeue_cycle_state
    \/ Do_SetTrDequeuePointer_set_stream_context_type
    \/ Do_SetTrDequeuePointer_set_new_tr_dequeue_pointer
    \/ Do_SetTrDequeuePointer_set_stream_id
    \/ Do_SetTrDequeuePointer_set_endpoint_id
    \/ Do_SetTrDequeuePointer_set_slot_id

Spec == Init /\ [][Next]_vars

-----------------------------------------------------------------------------
\* Properties of the codec (specification Spec).

\* C1: on SetTrDequeuePointer, new_tr_dequeue_pointer() returns exactly the
\* 16-byte-aligned 64-bit value last given to set_new_tr_dequeue_pointer,
\* whatever Dequeue Cycle State and Stream Context Type were set before or
\* after it.
C1_PointerRoundTrip ==
    (kind = "SetTrDequeuePointer" /\ last.ok) =>
        SetTrDequeuePointer_new_tr_dequeue_pointer(trb) = shadow["new_tr_dequeue_pointer"]

\* C2: a setter call that returns leaves the value of the getter of every
\* other declared field of the variant unchanged.
C2_FieldIsolation ==
    [][ (last'.ok /\ last'.op # "cycle_bit") =>
            \A g \in Fields(kind) \ {last'.op} :
                Get(kind, g, trb') = Get(kind, g, trb) ]_vars

C2_Witness ==
    /\ kind = "SetTrDequeuePointer"
    /\ last.ok /\ last.op = "stream_id" /\ last.arg = Bits(4660)
    /\ SetTrDequeuePointer_stream_id(trb) = Bits(4660)
    /\ SetTrDequeuePointer_slot_id(trb) = Bits(7)
    /\ SetTrDequeuePointer_dequeue_cycle_state(trb)
    /\ SetTrDequeuePointer_stream_context_type(trb) = Bits(7)
    /\ SetTrDequeuePointer_new_tr_dequeue_pointer(trb) = Bits(4096)

\* C3: a pointer setter (set_input_context_pointer, set_new_tr_dequeue_pointer)
\* panics exactly when its argument is not a multiple of 16, and a call that
\* panics leaves all four words of the TRB as they were.
C3_AlignmentEnforced ==
    [][ last'.op \in PtrFields =>
            /\ last'.ok <=> (Mod16(last'.arg) = {})
            /\ ~last'.ok => trb' = trb ]_vars

C3_Witness ==
    /\ kind = "AddressDevice"
    /\ last.op = "input_context_pointer" /\ last.arg = Bits(4097) /\ ~last.ok
    /\ AddressDevice_input_context_pointer(trb) = Bits(4096)
    /\ AddressDevice_slot_id(trb) = Bits(7)

\* C4: on AddressDevice, after set_input_context_pointer(p),
\* set_block_set_address_request(b) and set_slot_id(s) in any order, the three
\* getters return exactly p, b and s.
C4_AddressDeviceRoundTrip ==
    (kind = "AddressDevice" /\ last.ok) =>
        /\ AddressDevice_input_context_pointer(trb) = shadow["input_context_pointer"]
        /\ AddressDevice_block_set_address_request(trb) = shadow["block_set_address_request"]
        /\ AddressDevice_slot_id(trb) = shadow["slot_id"]

C4_Witness ==
    /\ kind = "AddressDevice" /\ last.ok
    /\ shadow["input_context_pointer"] = {4, 63}
    /\ shadow["block_set_address_request"] = TRUE
    /\ shadow["slot_id"] = Bits(7)
    /\ AddressDevice_input_context_pointer(trb) = {4, 63}
    /\ AddressDevice_block_set_address_request(trb)
    /\ AddressDevice_slot_id(trb) = Bits(7)

\* C9: a freshly constructed record is zero except for the Type field; after
\* any sequence of setter calls the Type field (word 3, bits 10..15) is still
\* the variant's type code and the cycle bit (word 3, bit 0) is still the one
\* last stamped by the ring.
C9_TypeAndCyclePreserved ==
    /\ get_bits(trb[3], 10, 15) = Bits(TypeCode(kind))
    /\ cycle_bit(trb) = shadow["cycle_bit"]
    /\ last.op = "new" =>
          trb[0] = {} /\ trb[1] = {} /\ trb[2] = {} /\ trb[3] \subseteq 10..15

C9_Witness ==
    /\ kind = "ResetEndpoint" /\ last.ok
    /\ last.op = "transfer_state_preserve" /\ last.arg = TRUE
    /\ cycle_bit(trb)
    /\ ResetEndpoint_endpoint_id(trb) = {0, 4}
    /\ ResetEndpoint_slot_id(trb) = Bits(7)

\* The width in bits of the fields that are narrower than their setter's u8.
NarrowWidth(f) ==
    CASE f = "slot_type" -> 5
      [] f = "endpoint_id" -> 5
      [] f = "stream_context_type" -> 3

\* C10: set_slot_type, set_endpoint_id and set_stream_context_type called with
\* a value that does not fit the field panic and leave all four words of the
\* TRB unchanged.
C10_OutOfRangeRejected ==
    [][ (/\ last'.op \in {"slot_type", "endpoint_id", "stream_context_type"}
         /\ ~(last'.arg \subseteq 0..(NarrowWidth(last'.op) - 1))) =>
            (~last'.ok /\ trb' = trb) ]_vars

C10_Witness ==
    /\ kind = "StopEndpoint"
    /\ last.op = "endpoint_id" /\ last.arg = {0, 5} /\ ~last.ok
    /\ StopEndpoint_endpoint_id(trb) = {4}
    /\ ~StopEndpoint_suspend(trb)
    /\ StopEndpoint_slot_id(trb) = {0}

-----------------------------------------------------------------------------
\* Structural Parameters 2 (registers/capability.rs).  The register is read
\* only: the hardware fixes its value, the driver decodes it.

\* StructuralParameters2::erst_max
erst_max(r) == get_bits(r, 4, 7)

\* StructuralParameters2::max_scratchpad_buffers_hi
max_scratchpad_buffers_hi(r) == get_bits(r, 20, 25)

\* StructuralParameters2::max_scratchpad_buffers_lo
max_scratchpad_buffers_lo(r) == get_bits(r, 27, 31)

\* u16::pow: the result when it fits into 16 bits; on overflow the debug build
\* panics and the release build wraps.
u16_pow(b, e) ==
    LET x == Pow(b, e) IN [ok |-> x < 65536, v |-> x % 65536]

\* The mutant: the raw exponent is returned.
event_ring_segment_table_max_raw(r) == [ok |-> TRUE, v |-> Val(erst_max(r))]

\* StructuralParameters2::event_ring_segment_table_max: 2_u16.pow(erst_max)
event_ring_segment_table_max(r) == u16_pow(2, Val(erst_max(r)))

\* The mutant: the high part is shifted by the wrong amount.
max_scratchpad_buffers_shift4(r) ==
    LET h == max_scratchpad_buffers_hi(r)
        l == max_scratchpad_buffers_lo(r)
    IN  [ok |-> TRUE, v |-> { i + 4 : i \in h } \cup l]

\* StructuralParameters2::max_scratchpad_buffers: h << 5 | l
max_scratchpad_buffers(r) ==
    LET h == max_scratchpad_buffers_hi(r)
        l == max_scratchpad_buffers_lo(r)
    IN  [ok |-> TRUE, v |-> ({ i + 5 : i \in h } \cap (0..31)) \cup l]

\* The register with bit b flipped.
Flip(r, b) == IF b \in r THEN r \ {b} ELSE r \cup {b}

\* The bits of the register outside ERST Max and the two scratchpad fields.
OtherSamples == {{}, {26}, {3, 8, 19, 26}}

\* The codec and ring variables are idle in the register's specification.
IdleTrb == /\ kind = "Noop" /\ trb = new("Noop")
           /\ last = [op |-> "new", arg |-> {}, ok |-> TRUE]
           /\ shadow = [f \in {"cycle_bit"} |-> FALSE]

\* hw holds the field values the hardware reports; reg is the register that
\* carries them.
InitCap ==
    /\ hw \in [erst : 0..15,
               hi : { Val(b) : b \in UpTo(0..5, MaxFieldBits) },
               lo : { Val(b) : b \in UpTo(0..4, MaxFieldBits) },
               other : OtherSamples]
    /\ reg = { i + 4 : i \in Bits(hw.erst) } \cup { i + 20 : i \in Bits(hw.hi) }
             \cup { i + 27 : i \in Bits(hw.lo) } \cup hw.other
    /\ erst_out = ErstNotRead
    /\ spb_out = SpbNotRead
    /\ IdleTrb /\ IdleRing

Read_event_ring_segment_table_max ==
    /\ erst_out = ErstNotRead
    /\ erst_out' = event_ring_segment_table_max(reg)
    /\ UNCHANGED <<hw, reg, spb_out, trbVars, ringVars>>

Read_max_scratchpad_buffers ==
    /\ spb_out = SpbNotRead
    /\ spb_out' = max_scratchpad_buffers(reg)
    /\ UNCHANGED <<hw, reg, erst_out, trbVars, ringVars>>

NextCap == Read_event_ring_segment_table_max \/ Read_max_scratchpad_buffers

SpecCap == InitCap /\ [][NextCap]_vars

\* C7: max_scratchpad_buffers() is (high << 5) | low, high being bits 20..25
\* and low bits 27..31 of Structural Parameters 2, and no other bit of the
\* register changes the result.
C7_ScratchpadReconstruction ==
    spb_out # SpbNotRead =>
        /\ spb_out.ok
        /\ Val(spb_out.v) = hw.hi * 32 + hw.lo
        /\ \A b \in (0..31) \ ((20..25) \cup (27..31)) :
               max_scratchpad_buffers(Flip(reg, b)) = spb_out

C7_Witness ==
    /\ hw.hi = 2 /\ hw.lo = 1 /\ hw.erst = 15 /\ 26 \in reg
    /\ spb_out # SpbNotRead /\ Val(spb_out.v) = 65

\* C8: event_ring_segment_table_max() is 2^e for the value e of bits 4..7 of
\* Structural Parameters 2, fits into 16 bits without overflow, and no other
\* bit of the register changes the result.
C8_ErstMaxDecoding ==
    erst_out # ErstNotRead =>
        /\ erst_out.ok
        /\ erst_out.v = Pow(2, hw.erst)
        /\ erst_out.v < 65536
        /\ \A b \in (0..31) \ (4..7) :
               event_ring_segment_table_max(Flip(reg, b)) = erst_out

C8_Witness ==
    /\ hw.erst = 15 /\ hw.other = {3, 8, 19, 26}
    /\ erst_out = [ok |-> TRUE, v |-> 32768]

-----------------------------------------------------------------------------
\* The Ring: enqueue and the cycle-bit protocol.

\* The commands a run enqueues.
CmdSamples == {"EnableSlot", "AddressDevice", "Noop"}

EmptySlot == [type |-> "empty", cycle |-> FALSE, toggle |-> FALSE, target |-> 0]

\* The mutant: the TRB is stamped with the opposite of the cycle state.
stamp_inverted(c, cs) == [type |-> c, cycle |-> ~cs, toggle |-> FALSE, target |-> 0]

\* Step 1: the command TRB, stamped with the cycle state.
stamp(c, cs) == [type |-> c, cycle |-> cs, toggle |-> FALSE, target |-> 0]

\* Step 4: the Link TRB: cycle bit the current cycle state, target the
\* segment's base, Toggle-Cycle set.
link_trb(cs) == [type |-> "Link", cycle |-> cs, toggle |-> TRUE, target |-> 0]

\* The mutant: the wrap happens only once the cursor is on the final slot.
next_is_final_slot_late(i, cap) == i = cap - 1

\* Steps 3 and 4: the next slot would be the reserved final slot.
next_is_final_slot(i, cap) == i + 1 = cap - 1

InitRing ==
    /\ capacity \in 2..MaxCapacity
    /\ slots = [i \in 0..(capacity - 1) |-> EmptySlot]
    /\ enqueue_index = 0
    /\ cycle_state = TRUE
    /\ enqueued = 0
    /\ last_index = 0
    /\ IdleTrb /\ IdleCap

\* Enqueue of one command TRB (steps 1 to 5).  enqueued counts the calls and
\* last_index is the slot the last command TRB was written to.
Enqueue ==
    /\ enqueued < MaxEnqueues
    /\ \E c \in CmdSamples :
        LET written == [slots EXCEPT ![enqueue_index] = stamp(c, cycle_state)]
        IN  IF next_is_final_slot(enqueue_index, capacity)
            THEN /\ slots' = [written EXCEPT ![capacity - 1] = link_trb(cycle_state)]
                 /\ cycle_state' = ~cycle_state
                 /\ enqueue_index' = 0
            ELSE /\ slots' = written
                 /\ cycle_state' = cycle_state
                 /\ enqueue_index' = enqueue_index + 1
    /\ last_index' = enqueue_index
    /\ enqueued' = enqueued + 1
    /\ UNCHANGED <<capacity, trbVars, capVars>>

NextRing == Enqueue

SpecRing == InitRing /\ [][NextRing]_vars

HasLink == \E i \in 0..(capacity - 1) : slots[i].type = "Link"

====
